---- MODULE Spec2Model ----
(***************************************************************************)
(* Provably-fair verifier (lowlifescumm/doublecheck): the outcome engine   *)
(* (lib/provablyFair.ts), the digest utility (lib/hashUtils.ts) and the    *)
(* HTTP handler (api/verify.ts).                                           *)
(*                                                                         *)
(* JavaScript numbers are IEEE-754 doubles.  They are modelled exactly: a  *)
(* finite double is sign * m * 2^e with a 53-bit mantissa m, and every     *)
(* arithmetic operation is the exact rational result rounded to nearest,   *)
(* ties to even.  Mantissas do not fit 32-bit integers, so they are held   *)
(* as little-endian sequences of 15-bit limbs.                             *)
(***************************************************************************)
EXTENDS Integers, Sequences, FiniteSets, TLC

VARIABLES
  sha,    \* SHA-256: the digest of every message
  env,    \* process.env.MAX_MULT
  phase,  \* "idle", "pending" (a call or request is made), "done" (it returned)
  call,   \* the call or request being served
  ret,    \* what it returned
  seen,   \* what the same call returned the time before
  engine, \* the calls of verifyGame that postVerify made for the request
  app,    \* the state of the client's App: result, loading, error
  fetches \* the requests the client has sent that are still on their way

vars == <<sha, env, phase, call, ret, seen, engine, app, fetches>>

\* no call, no result
None == [t |-> "none"]

(***************************************************************************)
(* Natural numbers of arbitrary size: <<>> is 0, the last limb is never 0. *)
(***************************************************************************)
Limb == 2^15

Hd(a) == IF a = <<>> THEN 0 ELSE Head(a)
Tl(a) == IF a = <<>> THEN <<>> ELSE Tail(a)

RECURSIVE NatNorm(_)
NatNorm(a) ==
  IF a = <<>> THEN <<>>
  ELSE IF a[Len(a)] = 0 THEN NatNorm(SubSeq(a, 1, Len(a) - 1))
  ELSE a

NatOfInt(n) ==
  NatNorm(<<n % Limb, (n \div Limb) % Limb, n \div (Limb * Limb)>>)

RECURSIVE NatAddC(_, _, _)
NatAddC(a, b, c) ==
  IF a = <<>> /\ b = <<>> THEN (IF c = 0 THEN <<>> ELSE <<c>>)
  ELSE LET x == Hd(a) + Hd(b) + c
       IN  <<x % Limb>> \o NatAddC(Tl(a), Tl(b), x \div Limb)

NatAdd(a, b) == NatAddC(a, b, 0)

\* a - b for a >= b
RECURSIVE NatSubB(_, _, _)
NatSubB(a, b, c) ==
  IF a = <<>> THEN <<>>
  ELSE LET x == Hd(a) - Hd(b) - c
       IN  IF x < 0 THEN <<x + Limb>> \o NatSubB(Tl(a), Tl(b), 1)
           ELSE <<x>> \o NatSubB(Tl(a), Tl(b), 0)

NatSub(a, b) == NatNorm(NatSubB(a, b, 0))

\* -1, 0, 1 as a < b, a = b, a > b
RECURSIVE NatCmpAt(_, _, _)
NatCmpAt(a, b, i) ==
  IF i = 0 THEN 0
  ELSE IF a[i] < b[i] THEN -1
  ELSE IF a[i] > b[i] THEN 1
  ELSE NatCmpAt(a, b, i - 1)

NatCmp(a, b) ==
  IF Len(a) < Len(b) THEN -1
  ELSE IF Len(a) > Len(b) THEN 1
  ELSE NatCmpAt(a, b, Len(a))

NatLess(a, b) == NatCmp(a, b) < 0
NatLeq(a, b) == NatCmp(a, b) <= 0

\* a * k for 0 <= k < Limb
RECURSIVE NatMulC(_, _, _)
NatMulC(a, k, c) ==
  IF a = <<>> THEN (IF c = 0 THEN <<>> ELSE <<c>>)
  ELSE LET x == Head(a) * k + c
       IN  <<x % Limb>> \o NatMulC(Tail(a), k, x \div Limb)

NatMulSmall(a, k) == IF k = 0 THEN <<>> ELSE NatMulC(a, k, 0)

RECURSIVE NatMul(_, _)
NatMul(a, b) ==
  IF a = <<>> \/ b = <<>> THEN <<>>
  ELSE LET rest == NatMul(a, Tail(b))
       IN  NatAdd(NatMulSmall(a, Head(b)),
                  IF rest = <<>> THEN <<>> ELSE <<0>> \o rest)

\* number of bits of k, 0 <= k < Limb
RECURSIVE IntBits(_)
IntBits(k) == IF k = 0 THEN 0 ELSE 1 + IntBits(k \div 2)

NatBits(a) == IF a = <<>> THEN 0 ELSE 15 * (Len(a) - 1) + IntBits(a[Len(a)])

NatPow2(k) == [i \in 1..(k \div 15) |-> 0] \o <<2^(k % 15)>>

NatShl(a, k) ==
  IF a = <<>> THEN <<>>
  ELSE [i \in 1..(k \div 15) |-> 0] \o NatMulSmall(a, 2^(k % 15))

NatIsOdd(a) == Hd(a) % 2 = 1

\* the largest d < Limb with b * d <= r, found bit by bit; d + 2^bit < Limb
RECURSIVE NatDigit(_, _, _, _)
NatDigit(r, b, d, bit) ==
  IF bit < 0 THEN d
  ELSE IF NatLeq(NatMulSmall(b, d + 2^bit), r) THEN NatDigit(r, b, d + 2^bit, bit - 1)
  ELSE NatDigit(r, b, d, bit - 1)

\* long division, most significant limb first: i limbs of a are still to come,
\* q and r are the quotient and remainder of the limbs already taken
RECURSIVE NatDivAt(_, _, _, _, _)
NatDivWith(a, b, i, q, r1, d) ==
  NatDivAt(a, b, i - 1, <<d>> \o q, NatSub(r1, NatMulSmall(b, d)))

NatDivStep(a, b, i, q, r1) ==
  NatDivWith(a, b, i, q, r1, IF NatLess(r1, b) THEN 0 ELSE NatDigit(r1, b, 0, 14))

NatDivAt(a, b, i, q, r) ==
  IF i = 0 THEN <<NatNorm(q), r>>
  ELSE NatDivStep(a, b, i, q, NatNorm(<<a[i]>> \o r))

\* division by one limb 0 < k < Limb: <<quotient, remainder (an integer)>>
RECURSIVE NatShortDivAt(_, _, _, _, _)
NatShortDivAt(a, k, i, q, r) ==
  IF i = 0 THEN <<NatNorm(q), r>>
  ELSE LET y == r * Limb + a[i]
       IN  NatShortDivAt(a, k, i - 1, <<y \div k>> \o q, y % k)

\* the number of zero limbs at the low end of b > 0
RECURSIVE NatLowZeros(_)
NatLowZeros(b) == IF Head(b) = 0 THEN 1 + NatLowZeros(Tail(b)) ELSE 0

\* <<quotient, remainder>> of a by b > 0: short division when b is one limb
\* times a power of Limb (every power of two is), long division otherwise
NatShortDivJoin(a, z, qr) ==
  <<qr[1], NatNorm(SubSeq(a, 1, z) \o (IF qr[2] = 0 THEN <<>> ELSE <<qr[2]>>))>>

NatDivModZ(a, b, z) ==
  IF Len(b) - z > 1 THEN NatDivAt(a, b, Len(a), <<>>, <<>>)
  ELSE IF Len(a) <= z THEN <<(<<>>), a>>
  ELSE NatShortDivJoin(a, z, NatShortDivAt(SubSeq(a, z + 1, Len(a)), b[Len(b)],
                                           Len(a) - z, <<>>, 0))

NatDivMod(a, b) == NatDivModZ(a, b, NatLowZeros(b))

\* a \div 2
NatHalf(a) == NatShortDivAt(a, 2, Len(a), <<>>, 0)[1]

(***************************************************************************)
(* IEEE-754 doubles.  A finite double is s * m * 2^e with s in {1, -1} and *)
(* 2^52 <= m < 2^53, or zero (m = <<>>; the sign of zero is not kept, no   *)
(* comparison in the program sees it).  NaN and the infinities are values  *)
(* of their own.  The exponent is not bounded: every value the program     *)
(* computes lies between 1e-19 and 1e21 in magnitude.                      *)
(***************************************************************************)
DZero == [k |-> "num", s |-> 1, m |-> <<>>, e |-> 0]
DNaN  == [k |-> "nan", s |-> 1, m |-> <<>>, e |-> 0]
DInf(sign) == [k |-> "inf", s |-> sign, m |-> <<>>, e |-> 0]

DIsNaN(a) == a.k = "nan"
DIsFinite(a) == a.k = "num"
DIsZero(a) == a.k = "num" /\ a.m = <<>>

\* a finite double of mantissa m < 2^53 + 1: 2^53 is 2^52 with the next exponent
RoundPack(sign, m, e) ==
  IF NatBits(m) = 54 THEN [k |-> "num", s |-> sign, m |-> NatPow2(52), e |-> e + 1]
  ELSE [k |-> "num", s |-> sign, m |-> m, e |-> e]

\* q with one added when up
NatBump(q, up) == IF up THEN NatAdd(q, <<1>>) ELSE q

\* nearest, ties to even, of (q + r / d) * 2^e where 2^52 <= q < 2^54 and r < d:
\* a q of 54 bits loses its last bit
RoundQuot(sign, q, r, d, e) ==
  IF NatBits(q) = 54
  THEN RoundPack(sign,
                 NatBump(NatHalf(q),
                         NatIsOdd(q) /\ (r # <<>> \/ NatIsOdd(NatHalf(q)))),
                 e + 1)
  ELSE RoundPack(sign,
                 NatBump(q, NatCmp(NatAdd(r, r), d) > 0
                            \/ (NatCmp(NatAdd(r, r), d) = 0 /\ NatIsOdd(q))),
                 e)

RoundDiv(sign, qr, d, e) == RoundQuot(sign, qr[1], qr[2], d, e)

RoundFrom(sign, n, d, e) == RoundDiv(sign, NatDivMod(n, d), d, e)

\* n * 2^k / d lies between 2^52 and 2^54
RoundScaled(sign, n, d, e, k) ==
  RoundFrom(sign, IF k >= 0 THEN NatShl(n, k) ELSE n,
            IF k < 0 THEN NatShl(d, -k) ELSE d, e - k)

\* the double nearest to sign * (n / d) * 2^e, ties to even; n, d naturals, d > 0
RoundRat(sign, n, d, e) ==
  IF n = <<>> THEN DZero
  ELSE RoundScaled(sign, n, d, e, 53 - NatBits(n) + NatBits(d))

DOfNat(n) == RoundRat(1, n, <<1>>, 0)
DOfInt(i) == IF i < 0 THEN RoundRat(-1, NatOfInt(-i), <<1>>, 0)
             ELSE RoundRat(1, NatOfInt(i), <<1>>, 0)
\* the double a decimal literal n/d denotes (n >= 0, d a power of ten)
DOfRatio(n, d) == RoundRat(1, NatOfInt(n), NatOfInt(d), 0)

DNeg(a) == IF a.k = "nan" \/ DIsZero(a) THEN a ELSE [a EXCEPT !.s = -a.s]
DAbs(a) == IF a.k = "nan" THEN a ELSE [a EXCEPT !.s = 1]

\* -1, 0, 1 for finite or infinite a, b
DCmp(a, b) ==
  LET mag(u, v) ==   \* magnitudes of two finite values
        IF u.m = <<>> /\ v.m = <<>> THEN 0
        ELSE IF u.m = <<>> THEN -1
        ELSE IF v.m = <<>> THEN 1
        ELSE IF u.e < v.e THEN -1
        ELSE IF u.e > v.e THEN 1
        ELSE NatCmp(u.m, v.m)
      sgn(u) == IF DIsZero(u) THEN 0 ELSE u.s
  IN  IF sgn(a) # sgn(b) THEN (IF sgn(a) < sgn(b) THEN -1 ELSE 1)
      ELSE IF a.k = "inf" \/ b.k = "inf"
           THEN (IF a.k = b.k THEN 0
                 ELSE IF a.k = "inf" THEN a.s ELSE -b.s)
      ELSE sgn(a) * mag(a, b)

\* a < b, a <= b, a === b as JavaScript compares numbers: false on NaN
DLess(a, b) == a.k # "nan" /\ b.k # "nan" /\ DCmp(a, b) < 0
DLeq(a, b)  == a.k # "nan" /\ b.k # "nan" /\ DCmp(a, b) <= 0
DEq(a, b)   == a.k # "nan" /\ b.k # "nan" /\ DCmp(a, b) = 0

\* x * 2^e0 and y * 2^e0 are the magnitudes of a and b
DAddAligned(a, b, x, y, e0) ==
  RoundRat(IF a.s = b.s \/ NatLeq(y, x) THEN a.s ELSE b.s,
           IF a.s = b.s THEN NatAdd(x, y)
           ELSE IF NatLeq(y, x) THEN NatSub(x, y)
           ELSE NatSub(y, x),
           <<1>>, e0)

DAddAt(a, b, e0) == DAddAligned(a, b, NatShl(a.m, a.e - e0), NatShl(b.m, b.e - e0), e0)

\* a + b
DAdd(a, b) ==
  IF a.k = "nan" \/ b.k = "nan" THEN DNaN
  ELSE IF a.k = "inf" \/ b.k = "inf"
       THEN (IF a.k = "inf" /\ b.k = "inf" /\ a.s # b.s THEN DNaN
             ELSE IF a.k = "inf" THEN a ELSE b)
  ELSE IF DIsZero(a) THEN b
  ELSE IF DIsZero(b) THEN a
  ELSE DAddAt(a, b, IF a.e < b.e THEN a.e ELSE b.e)

\* a - b
DSub(a, b) == DAdd(a, DNeg(b))

\* a * b
DMul(a, b) ==
  IF a.k = "nan" \/ b.k = "nan" THEN DNaN
  ELSE IF a.k = "inf" \/ b.k = "inf"
       THEN (IF DIsZero(a) \/ DIsZero(b) THEN DNaN ELSE DInf(a.s * b.s))
  ELSE RoundRat(a.s * b.s, NatMul(a.m, b.m), <<1>>, a.e + b.e)

\* a / b
DDiv(a, b) ==
  IF a.k = "nan" \/ b.k = "nan" THEN DNaN
  ELSE IF a.k = "inf" THEN (IF b.k = "inf" THEN DNaN ELSE DInf(a.s * b.s))
  ELSE IF b.k = "inf" THEN DZero
  ELSE IF DIsZero(b) THEN (IF DIsZero(a) THEN DNaN ELSE DInf(a.s))
  ELSE RoundRat(a.s * b.s, a.m, b.m, a.e - b.e)

DModAt(a, b, e0) ==
  RoundRat(a.s, NatDivMod(NatShl(a.m, a.e - e0), NatShl(b.m, b.e - e0))[2], <<1>>, e0)

\* a % b: the remainder of the truncated division, exact, with the sign of a
DMod(a, b) ==
  IF a.k # "num" \/ b.k = "nan" \/ DIsZero(b) THEN DNaN
  ELSE IF b.k = "inf" \/ DIsZero(a) THEN a
  ELSE DModAt(a, b, IF a.e < b.e THEN a.e ELSE b.e)

\* the integer at or below sign * (q + r / d), r < d
FloorOf(sign, qr) ==
  RoundRat(sign, NatBump(qr[1], sign = -1 /\ qr[2] # <<>>), <<1>>, 0)

\* Math.floor(a)
MathFloor(a) ==
  IF a.k # "num" \/ a.e >= 0 THEN a
  ELSE FloorOf(a.s, NatDivMod(a.m, NatPow2(-a.e)))

\* Math.round(a): the integer nearest to a, a half goes up: floor(a + 1/2), exactly;
\* a = s * m / 2^j, so a + 1/2 = (s * 2m + 2^j) / 2^(j + 1)
MathRoundAt(a, twoM, j) ==
  IF a.s = 1 THEN FloorOf(1, NatDivMod(NatAdd(twoM, NatPow2(j)), NatPow2(j + 1)))
  ELSE IF NatLeq(twoM, NatPow2(j)) THEN DZero
  ELSE FloorOf(-1, NatDivMod(NatSub(twoM, NatPow2(j)), NatPow2(j + 1)))

MathRound(a) ==
  IF a.k # "num" \/ a.e >= 0 THEN a
  ELSE MathRoundAt(a, NatAdd(a.m, a.m), -a.e)

\* Math.min(a, b)
MathMin(a, b) ==
  IF a.k = "nan" \/ b.k = "nan" THEN DNaN
  ELSE IF DCmp(a, b) <= 0 THEN a ELSE b

\* Math.abs(a)
MathAbs(a) == DAbs(a)

(***************************************************************************)
(* Strings are sequences of one-character strings.                         *)
(***************************************************************************)
UpperChars == <<"A", "B", "C", "D", "E", "F", "G", "H", "I", "J", "K", "L", "M",
                "N", "O", "P", "Q", "R", "S", "T", "U", "V", "W", "X", "Y", "Z">>
LowerChars == <<"a", "b", "c", "d", "e", "f", "g", "h", "i", "j", "k", "l", "m",
                "n", "o", "p", "q", "r", "s", "t", "u", "v", "w", "x", "y", "z">>

\* the position of c in chars, 0 when it is not there
IndexOf(chars, c) ==
  LET at == {i \in 1..Len(chars) : chars[i] = c}
  IN  IF at = {} THEN 0 ELSE CHOOSE i \in at : TRUE

LowerChar(c) == IF IndexOf(UpperChars, c) = 0 THEN c ELSE LowerChars[IndexOf(UpperChars, c)]
UpperChar(c) == IF IndexOf(LowerChars, c) = 0 THEN c ELSE UpperChars[IndexOf(LowerChars, c)]

\* String.prototype.toLowerCase (ASCII)
toLowerCase(str) ==
  [i \in 1..Len(str) |-> LowerChar(str[i])]

\* String.prototype.toUpperCase (ASCII): a caller may paste a digest in capitals
toUpperCase(str) ==
  [i \in 1..Len(str) |-> UpperChar(str[i])]

\* String.prototype.slice(from, to) for 0 <= from <= to
slice(str, from, to) ==
  SubSeq(str, from + 1, IF to < Len(str) THEN to ELSE Len(str))

DigitChars == <<"0", "1", "2", "3", "4", "5", "6", "7", "8", "9",
                "a", "b", "c", "d", "e", "f">>

\* the value of c as a digit (upper or lower case), -1 when it is none
DigitValue(c) ==
  IndexOf(DigitChars, LowerChar(c)) - 1

\* the digits of str from position i on, as far as they are digits of the radix:
\* <<value, number of digits read>>
RECURSIVE ParseDigits(_, _, _, _, _)
ParseDigits(str, i, radix, acc, n) ==
  IF i > Len(str) THEN <<acc, n>>
  ELSE LET v == DigitValue(str[i])
       IN  IF v < 0 \/ v >= radix THEN <<acc, n>>
           ELSE ParseDigits(str, i + 1, radix,
                            NatAdd(NatMulSmall(acc, radix), NatOfInt(v)), n + 1)

RECURSIVE SkipSpaces(_, _)
SkipSpaces(str, i) ==
  IF i <= Len(str) /\ str[i] = " " THEN SkipSpaces(str, i + 1) ELSE i

\* parseInt(str, radix), radix 10 or 16: leading blanks, a sign, for radix 16 an
\* optional 0x, then the longest run of digits; NaN when there is none
parseInt(str, radix) ==
  LET i0   == SkipSpaces(str, 1)
      neg  == i0 <= Len(str) /\ str[i0] = "-"
      i1   == IF i0 <= Len(str) /\ str[i0] \in {"-", "+"} THEN i0 + 1 ELSE i0
      i2   == IF radix = 16 /\ i1 + 1 <= Len(str) /\ str[i1] = "0"
                 /\ str[i1 + 1] \in {"x", "X"}
              THEN i1 + 2 ELSE i1
      got  == ParseDigits(str, i2, radix, <<>>, 0)
  IN  IF got[2] = 0 THEN DNaN
      ELSE RoundRat(IF neg THEN -1 ELSE 1, got[1], <<1>>, 0)

\* the decimal digits of a natural number, most significant first
RECURSIVE NatDecimal(_)
NatDecimal(n) ==
  LET qr == NatDivMod(n, <<10>>)
      d  == DigitChars[Hd(qr[2]) + 1]
  IN  IF qr[1] = <<>> THEN <<d>> ELSE Append(NatDecimal(qr[1]), d)

\* String(a) of an integer-valued double below 1e21, as a template literal
\* `${a}` formats it
NumberToString(a) ==
  IF a.k = "nan" THEN <<"N", "a", "N">>
  ELSE LET n == IF a.e >= 0 THEN NatShl(a.m, a.e)
                ELSE NatDivMod(a.m, NatPow2(-a.e))[1]
       IN  IF a.s = -1 /\ n # <<>> THEN <<"-">> \o NatDecimal(n) ELSE NatDecimal(n)

(***************************************************************************)
(* lib/hashUtils.ts.  SHA-256 is not computed: H is the function it is, a  *)
(* map from messages to 64-character lower-case hex digests.               *)
(***************************************************************************)
\* sha256 with one Hash object kept and updated across calls: from the second
\* call on the digest is that of more than the input
sha256Chained(H, input) ==
  IF seen = None THEN H[input] ELSE H[CHOOSE m \in DOMAIN H : m # input]

sha256(H, input) == H[input]

\* verifyServerSeedHash without the two toLowerCase() of line 196
verifyServerSeedHashExact(H, serverSeed, serverSeedHash) ==
  sha256(H, serverSeed) = serverSeedHash

\* verifyServerSeedHash(serverSeed, serverSeedHash)
verifyServerSeedHash(H, serverSeed, serverSeedHash) ==
  LET computedHash == sha256(H, serverSeed)
  IN  toLowerCase(computedHash) = toLowerCase(serverSeedHash)

\* createAuditDigest(serverSeed)
createAuditDigest(H, serverSeed) == slice(sha256(H, serverSeed), 0, 12)

(***************************************************************************)
(* lib/provablyFair.ts                                                     *)
(***************************************************************************)
D1 == DOfInt(1)
D100 == DOfInt(100)
D10000 == DOfInt(10000)
\* 4503599627370496
TWO_TO_52 == DOfNat(NatPow2(52))
\* no clamp: 0 for the 1e-12 of line 109
D1eMinus12Dropped == DZero

\* the literal 1e-12
D1eMinus12 == RoundRat(1, <<1>>, NatMul(NatOfInt(1000000), NatOfInt(1000000)), 0)
\* the literal 0.01
D0_01 == DOfRatio(1, 100)
\* Number.EPSILON, 2^-52
NumberEPSILON == RoundRat(1, <<1>>, NatPow2(52), 0)

\* computeHashInput with '-' for the ':' of line 29
computeHashInputDashed(serverSeed, clientSeed, nonce) ==
  serverSeed \o <<"-">> \o clientSeed \o <<"-">> \o NumberToString(nonce)

\* computeHashInput that leaves the nonce out of the template of line 29
computeHashInputNonceless(serverSeed, clientSeed, nonce) ==
  serverSeed \o <<":">> \o clientSeed

\* computeHashInput(serverSeed, clientSeed, nonce)
computeHashInput(serverSeed, clientSeed, nonce) ==
  serverSeed \o <<":">> \o clientSeed \o <<":">> \o NumberToString(nonce)

\* verifyDice without the "% 10000" of line 58
verifyDiceUnreduced(H, serverSeed, clientSeed, nonce) ==
  LET hash == sha256(H, computeHashInput(serverSeed, clientSeed, nonce))
      result == DDiv(parseInt(slice(hash, 0, 8), 16), D100)
  IN [computedResult |-> DDiv(MathRound(DMul(result, D100)), D100),
      computationHex |-> hash,
      serverSeedHash |-> sha256(H, serverSeed)]

\* verifyDice(serverSeed, clientSeed, nonce)
verifyDice(H, serverSeed, clientSeed, nonce) ==
  LET hashInput == computeHashInput(serverSeed, clientSeed, nonce)
      hash      == sha256(H, hashInput)
      hexPrefix == slice(hash, 0, 8)
      xx        == parseInt(hexPrefix, 16)
      result    == DDiv(DMod(xx, D10000), D100)
  IN  [computedResult |-> DDiv(MathRound(DMul(result, D100)), D100),
       computationHex |-> hash,
       serverSeedHash |-> sha256(H, serverSeed)]

\* verifyCrash(serverSeed, clientSeed, nonce, maxMult)
verifyCrash(H, serverSeed, clientSeed, nonce, maxMult) ==
  LET hashInput == computeHashInput(serverSeed, clientSeed, nonce)
      hash      == sha256(H, hashInput)
      hexPrefix == slice(hash, 0, 13)
      xx        == parseInt(hexPrefix, 16)
      r0        == DDiv(xx, TWO_TO_52)
      r         == MathMin(r0, DSub(D1, D1eMinus12))
      mult0     == DDiv(MathFloor(DMul(DDiv(D1, DSub(D1, r)), D100)), D100)
      mult      == MathMin(mult0, maxMult)
  IN  [computedResult |-> DDiv(MathRound(DMul(mult, D100)), D100),
       computationHex |-> hash,
       serverSeedHash |-> sha256(H, serverSeed)]

(***************************************************************************)
(* JavaScript values as a request body or an argument carries them.        *)
(***************************************************************************)
Undefined == [t |-> "undefined"]
JNull == [t |-> "null"]
JStr(chars) == [t |-> "string", v |-> chars]
JNum(d) == [t |-> "number", v |-> d]
JBool(b) == [t |-> "boolean", v |-> b]

typeof(a) == IF a.t = "null" THEN "object" ELSE a.t

\* ToBoolean(a): what `if (a)`, `!a` and `a || b` look at
Truthy(a) ==
  CASE a.t = "undefined" -> FALSE
    [] a.t = "null"      -> FALSE
    [] a.t = "boolean"   -> a.v
    [] a.t = "number"    -> ~DIsNaN(a.v) /\ ~DIsZero(a.v)
    [] a.t = "string"    -> a.v # <<>>
    [] OTHER             -> TRUE

\* a || b
OrElse(a, b) == IF Truthy(a) THEN a ELSE b

GameDice == <<"d", "i", "c", "e">>
GameCrash == <<"c", "r", "a", "s", "h">>

NoResult == [computedResult |-> DNaN, computationHex |-> <<>>, serverSeedHash |-> <<>>]

\* verifyGame that never sets hashMismatch (without line 156)
verifyGameUnflagged(H, game, serverSeed, serverSeedHash, clientSeed, nonce, maxMult) ==
  [threw |-> game \notin {JStr(GameDice), JStr(GameCrash)},
   result |-> IF game = JStr(GameDice) THEN verifyDice(H, serverSeed, clientSeed, nonce)
              ELSE IF game = JStr(GameCrash)
              THEN verifyCrash(H, serverSeed, clientSeed, nonce, maxMult)
              ELSE NoResult,
   hashVerified |-> Truthy(serverSeedHash)
                    /\ verifyServerSeedHash(H, serverSeed, serverSeedHash.v),
   hashMismatch |-> FALSE]

\* verifyGame that sets both flags outside the "if (serverSeedHash)" of line
\* 154: no claimed hash compares as the string "undefined"
verifyGameUnguarded(H, game, serverSeed, serverSeedHash, clientSeed, nonce, maxMult) ==
  [threw |-> game \notin {JStr(GameDice), JStr(GameCrash)},
   result |-> IF game = JStr(GameDice) THEN verifyDice(H, serverSeed, clientSeed, nonce)
              ELSE IF game = JStr(GameCrash)
              THEN verifyCrash(H, serverSeed, clientSeed, nonce, maxMult)
              ELSE NoResult,
   hashVerified |-> Truthy(serverSeedHash)
                    /\ verifyServerSeedHash(H, serverSeed, serverSeedHash.v),
   hashMismatch |-> ~(Truthy(serverSeedHash)
                      /\ verifyServerSeedHash(H, serverSeed, serverSeedHash.v))]

\* verifyGame(game, serverSeed, serverSeedHash, clientSeed, nonce, maxMult);
\* game and serverSeedHash are JavaScript values, threw tells that it threw
verifyGame(H, game, serverSeed, serverSeedHash, clientSeed, nonce, maxMult) ==
  LET hashVerified == IF Truthy(serverSeedHash)
                      THEN verifyServerSeedHash(H, serverSeed, serverSeedHash.v)
                      ELSE FALSE
      hashMismatch == IF Truthy(serverSeedHash) THEN ~hashVerified ELSE FALSE
  IN  IF game = JStr(GameDice)
      THEN [threw |-> FALSE, result |-> verifyDice(H, serverSeed, clientSeed, nonce),
            hashVerified |-> hashVerified, hashMismatch |-> hashMismatch]
      ELSE IF game = JStr(GameCrash)
      THEN [threw |-> FALSE,
            result |-> verifyCrash(H, serverSeed, clientSeed, nonce, maxMult),
            hashVerified |-> hashVerified, hashMismatch |-> hashMismatch]
      ELSE [threw |-> TRUE, result |-> NoResult,
            hashVerified |-> hashVerified, hashMismatch |-> hashMismatch]

\* compareResults without Math.abs
compareResultsSigned(computed, expected, strict) ==
  IF strict
  THEN DLess(DSub(computed, expected), DMul(NumberEPSILON, DOfInt(10)))
  ELSE DLess(DSub(computed, expected), D0_01)

\* compareResults with "<=" for the "<" of line 196
compareResultsInclusive(computed, expected, strict) ==
  IF strict
  THEN DLess(MathAbs(DSub(computed, expected)), DMul(NumberEPSILON, DOfInt(10)))
  ELSE DLeq(MathAbs(DSub(computed, expected)), D0_01)

\* compareResults that takes the tolerant branch in either mode
compareResultsTolerantOnly(computed, expected, strict) ==
  DLess(MathAbs(DSub(computed, expected)), D0_01)

\* compareResults(computed, expected, strict)
compareResults(computed, expected, strict) ==
  IF strict
  THEN DLess(MathAbs(DSub(computed, expected)), DMul(NumberEPSILON, DOfInt(10)))
  ELSE DLess(MathAbs(DSub(computed, expected)), D0_01)

(***************************************************************************)
(* api/verify.ts                                                           *)
(***************************************************************************)
\* Number.isInteger(a)
NumberIsInteger(a) ==
  a.k = "num" /\ (a.m = <<>> \/ a.e >= 0 \/ NatDivMod(a.m, NatPow2(-a.e))[2] = <<>>)

MaxSeedLength == 1000

\* validateRequest without the check of the game (lines 37 to 39)
validateRequestAnyGame(body) ==
  IF ~Truthy(body.server_seed) \/ typeof(body.server_seed) # "string"
  THEN [valid |-> FALSE, error |-> "server_seed is required and must be a string"]
  ELSE IF Len(body.server_seed.v) > MaxSeedLength
  THEN [valid |-> FALSE, error |-> "server_seed is too long (max 1000 characters)"]
  ELSE IF ~Truthy(body.client_seed) \/ typeof(body.client_seed) # "string"
  THEN [valid |-> FALSE, error |-> "client_seed is required and must be a string"]
  ELSE IF Len(body.client_seed.v) > MaxSeedLength
  THEN [valid |-> FALSE, error |-> "client_seed is too long (max 1000 characters)"]
  ELSE IF typeof(body.nonce) # "number" \/ DLess(body.nonce.v, D1)
          \/ ~NumberIsInteger(body.nonce.v)
  THEN [valid |-> FALSE, error |-> "nonce must be a positive integer"]
  ELSE IF body.expected_result # Undefined
          /\ (typeof(body.expected_result) # "number"
              \/ DLess(body.expected_result.v, DZero))
  THEN [valid |-> FALSE, error |-> "expected_result must be a non-negative number"]
  ELSE IF Truthy(body.server_seed_hash) /\ typeof(body.server_seed_hash) # "string"
  THEN [valid |-> FALSE, error |-> "server_seed_hash must be a string if provided"]
  ELSE [valid |-> TRUE, error |-> ""]

\* validateRequest(body): the first failing check decides the error
validateRequest(body) ==
  IF ~Truthy(body.game) \/ (body.game # JStr(GameDice) /\ body.game # JStr(GameCrash))
  THEN [valid |-> FALSE, error |-> "Invalid game type. Must be \"dice\" or \"crash\""]
  ELSE IF ~Truthy(body.server_seed) \/ typeof(body.server_seed) # "string"
  THEN [valid |-> FALSE, error |-> "server_seed is required and must be a string"]
  ELSE IF Len(body.server_seed.v) > MaxSeedLength
  THEN [valid |-> FALSE, error |-> "server_seed is too long (max 1000 characters)"]
  ELSE IF ~Truthy(body.client_seed) \/ typeof(body.client_seed) # "string"
  THEN [valid |-> FALSE, error |-> "client_seed is required and must be a string"]
  ELSE IF Len(body.client_seed.v) > MaxSeedLength
  THEN [valid |-> FALSE, error |-> "client_seed is too long (max 1000 characters)"]
  ELSE IF typeof(body.nonce) # "number" \/ DLess(body.nonce.v, D1)
          \/ ~NumberIsInteger(body.nonce.v)
  THEN [valid |-> FALSE, error |-> "nonce must be a positive integer"]
  ELSE IF body.expected_result # Undefined
          /\ (typeof(body.expected_result) # "number"
              \/ DLess(body.expected_result.v, DZero))
  THEN [valid |-> FALSE, error |-> "expected_result must be a non-negative number"]
  ELSE IF Truthy(body.server_seed_hash) /\ typeof(body.server_seed_hash) # "string"
  THEN [valid |-> FALSE, error |-> "server_seed_hash must be a string if provided"]
  ELSE [valid |-> TRUE, error |-> ""]

DefaultMaxMult == <<"1", "0", "0", "0", "0">>

\* parseInt(process.env.MAX_MULT || '10000', 10)
MaxMultOf(maxMultEnv) == parseInt(OrElse(maxMultEnv, JStr(DefaultMaxMult)).v, 10)

\* the notes of postVerify when the array is kept between requests: the
\* sentences of the request answered before come first
NotesOfShared(body, game, matches) ==
  (IF seen # None /\ seen.other # None /\ seen.other.call.op = "postVerify"
      /\ seen.other.ret.status = 200
   THEN seen.other.ret.details.notes ELSE <<>>)
  \o <<IF Truthy(body.server_seed_hash)
       THEN (IF game.hashMismatch
             THEN "Server seed hash verification FAILED - hash mismatch"
             ELSE "Server seed hash verified successfully")
       ELSE "No server seed hash provided for verification",
       IF body.expected_result # Undefined
       THEN (IF matches THEN "Computed result matches expected result"
             ELSE "Computed result does not match expected result")
       ELSE "No expected result provided - computation only">>

\* the notes of postVerify: which sentence was pushed, in order (the numbers a
\* sentence quotes are in the response already)
NotesOf(body, game, matches) ==
  <<IF Truthy(body.server_seed_hash)
    THEN (IF game.hashMismatch
          THEN "Server seed hash verification FAILED - hash mismatch"
          ELSE "Server seed hash verified successfully")
    ELSE "No server seed hash provided for verification",
    IF body.expected_result # Undefined
    THEN (IF matches THEN "Computed result matches expected result"
          ELSE "Computed result does not match expected result")
    ELSE "No expected result provided - computation only">>

\* the verdict when a matching expected result sets it back to PASS
VerdictOfLastWord(body, game, matches) ==
  IF body.expected_result # Undefined
  THEN (IF matches THEN "PASS" ELSE "FAIL")
  ELSE (IF game.hashMismatch THEN "FAIL" ELSE "PASS")

\* postVerify from "Determine verdict" on: game is what verifyGame returned and
\* matches what compareResults returned (read only when an expected result came)
VerdictOf(body, game, matches) ==
  IF body.expected_result # Undefined
  THEN (IF matches THEN (IF game.hashMismatch THEN "FAIL" ELSE "PASS") ELSE "FAIL")
  ELSE (IF game.hashMismatch THEN "FAIL" ELSE "PASS")

ResponseOf(body, game, matches) ==
  [status |-> 200, ok |-> TRUE,
   game |-> body.game,
   computed_result |-> game.result.computedResult,
   verdict |-> VerdictOf(body, game, matches),
   details |->
     [used_input |-> [client_seed |-> body.client_seed,
                      nonce |-> body.nonce,
                      server_seed_hash |-> game.result.serverSeedHash],
      computation_hex |-> game.result.computationHex,
      notes |-> NotesOf(body, game, matches)]]

\* postVerify that raises a hash mismatch as an error
AnswerRaising(body, game) ==
  IF game.threw
  THEN [status |-> 500, ok |-> FALSE, error |-> "Verification failed: Unknown game type"]
  ELSE IF game.hashMismatch
  THEN [status |-> 500, ok |-> FALSE, error |-> "Verification failed: hash mismatch"]
  ELSE ResponseOf(body, game,
                  IF body.expected_result # Undefined
                  THEN compareResults(game.result.computedResult, body.expected_result.v,
                                      Truthy(OrElse(body.expect_strict, JBool(FALSE))))
                  ELSE FALSE)

\* postVerify once verifyGame has returned or thrown
Answer(body, game) ==
  IF game.threw
  THEN [status |-> 500, ok |-> FALSE, error |-> "Verification failed: Unknown game type"]
  ELSE ResponseOf(body, game,
                  IF body.expected_result # Undefined
                  THEN compareResults(game.result.computedResult, body.expected_result.v,
                                      Truthy(OrElse(body.expect_strict, JBool(FALSE))))
                  ELSE FALSE)

Reject(validation) == [status |-> 400, ok |-> FALSE, error |-> validation.error]

\* postVerify(req, res) with process.env.MAX_MULT = maxMultEnv: the response,
\* its HTTP status included
postVerify(H, maxMultEnv, body) ==
  IF ~validateRequest(body).valid
  THEN Reject(validateRequest(body))
  ELSE Answer(body, verifyGame(H, body.game, body.server_seed.v, body.server_seed_hash,
                               body.client_seed.v, body.nonce.v, MaxMultOf(maxMultEnv)))

\* the calls of verifyGame postVerify makes: none when it answers 400 first
postVerifyCalls(maxMultEnv, body) ==
  IF ~validateRequest(body).valid THEN <<>>
  ELSE <<[game |-> body.game, serverSeed |-> body.server_seed.v,
          serverSeedHash |-> body.server_seed_hash, clientSeed |-> body.client_seed.v,
          nonce |-> body.nonce.v, maxMult |-> MaxMultOf(maxMultEnv)]>>

(***************************************************************************)
(* The client: App, VerifyForm and ExplainTooltip.                         *)
(***************************************************************************)
\* useState(null), useState(false), useState(null)
AppInit == [result |-> JNull, loading |-> FALSE, error |-> JNull]

\* parseFloat(str): leading blanks, a sign, the longest run of decimal digits
\* with at most one '.' in it; NaN when it has no digit (a numeral of the
\* model has no exponent part)
parseFloat(str) ==
  LET i0   == SkipSpaces(str, 1)
      neg  == i0 <= Len(str) /\ str[i0] = "-"
      i1   == IF i0 <= Len(str) /\ str[i0] \in {"-", "+"} THEN i0 + 1 ELSE i0
      int  == ParseDigits(str, i1, 10, <<>>, 0)
      dot  == i1 + int[2]
      frac == IF dot <= Len(str) /\ str[dot] = "."
              THEN ParseDigits(str, dot + 1, 10, int[1], 0)
              ELSE <<int[1], 0>>
  IN  IF int[2] + frac[2] = 0 THEN DNaN
      ELSE RoundRat(IF neg THEN -1 ELSE 1, frac[1], NatOfInt(10 ^ frac[2]), 0)

\* VerifyForm.handleSubmit: the formData handed to onVerify; form holds the
\* state of the form (useState, ResultDisplay.tsx:114-122)
handleSubmit(form) ==
  [game |-> JStr(form.game),
   server_seed |-> JStr(form.serverSeed),
   server_seed_hash |-> IF form.useServerSeedHash THEN JStr(form.serverSeedHash)
                        ELSE Undefined,
   client_seed |-> JStr(form.clientSeed),
   nonce |-> JNum(parseInt(NumberToString(form.nonce), 10)),
   expected_result |-> IF form.useExpectedResult /\ Truthy(JStr(form.expectedResult))
                       THEN JNum(parseFloat(form.expectedResult))
                       ELSE Undefined,
   expect_strict |-> JBool(form.expectStrict)]

\* JSON.stringify of a value in an object and JSON.parse of the text: a
\* property that is undefined is left out, NaN and the infinities become
\* null, every other value comes back as it was
JSONValue(a) ==
  IF a.t = "number" /\ a.v.k # "num" THEN JNull ELSE a

\* App.handleVerify, the body of its fetch as express.json() hands it to the
\* server
fetchBody(formData) ==
  [game |-> JSONValue(formData.game),
   server_seed |-> JSONValue(formData.server_seed),
   server_seed_hash |-> JSONValue(OrElse(formData.server_seed_hash, Undefined)),
   client_seed |-> JSONValue(formData.client_seed),
   nonce |-> JSONValue(formData.nonce),
   expected_result |-> JSONValue(OrElse(formData.expected_result, Undefined)),
   expect_strict |-> JSONValue(OrElse(formData.expect_strict, JBool(FALSE)))]

\* ExplainTooltip: the value it computes from computation_hex, "computed" for
\* dice and "finalMult" for crash
ExplainTooltip(game, computationHex) ==
  IF game = JStr(GameDice)
  THEN DDiv(DMod(parseInt(slice(computationHex, 0, 8), 16), D10000), D100)
  ELSE MathMin(
         DDiv(MathFloor(DMul(DDiv(D1, DSub(D1,
                MathMin(DDiv(parseInt(slice(computationHex, 0, 13), 16), TWO_TO_52),
                        DSub(D1, D1eMinus12)))), D100)), D100),
         D10000)

\* a form that stays enabled while a request is on its way
neverDisabled(loading) == FALSE

\* disabled={loading} on the submit button and on every field of VerifyForm
disabled(loading) == loading

(***************************************************************************)
(* The inputs of the model.                                                *)
(***************************************************************************)
MaxNonce == 2
MaxSalt == 3

ServerSeeds == {<<"a">>, <<"a", ":", "b">>}
\* the longest seed validateRequest lets through
FullSeed == [i \in 1..MaxSeedLength |-> "a"]
ClientSeeds == {<<"c">>}
Nonces == {DOfInt(n) : n \in 1..MaxNonce}

\* every message the program hashes on these inputs
Messages ==
  ServerSeeds \cup
  {computeHashInput(s, c, n) : s \in ServerSeeds, c \in ClientSeeds, n \in Nonces}
  \cup {FullSeed, computeHashInput(FullSeed, <<"c">>, DOfInt(1)),
        computeHashInput(<<"a">>, FullSeed, DOfInt(1))}

\* the first 13 hex characters (52 bits) of the digests SHA-256 may return:
\* 0, 2^52 - 1, 2^51, a dice roll of 99.99, and crash points 2.49, 199.99, 32768
DigestPrefixes ==
  <<<<"0", "0", "0", "0", "0", "0", "0", "0", "0", "0", "0", "0", "0">>,
     <<"f", "f", "f", "f", "f", "f", "f", "f", "f", "f", "f", "f", "f">>,
     <<"8", "0", "0", "0", "0", "0", "0", "0", "0", "0", "0", "0", "0">>,
     <<"0", "0", "0", "0", "2", "7", "0", "f", "0", "0", "0", "0", "0">>,
     <<"9", "9", "9", "9", "9", "9", "9", "9", "9", "9", "9", "9", "9">>,
     <<"f", "e", "b", "8", "5", "1", "e", "b", "8", "5", "1", "e", "b">>,
     <<"f", "f", "f", "e", "0", "0", "0", "0", "0", "0", "0", "0", "0">>>>

DigestTail == [i \in 1..51 |-> "0"]

RECURSIVE SumCodes(_, _)
SumCodes(msg, i) ==
  IF i > Len(msg) \/ i > 12 THEN 0
  ELSE i * (IndexOf(LowerChars, msg[i]) + IndexOf(DigitChars, msg[i])) + SumCodes(msg, i + 1)

\* the hash functions SHA-256 may be: each salt gives every message another digest
HashFunction(salt) ==
  [msg \in Messages |->
     DigestPrefixes[((SumCodes(msg, 1) + Len(msg) + salt) % Len(DigestPrefixes)) + 1]
       \o DigestTail]

HashFamily == {HashFunction(salt) : salt \in 0..MaxSalt}

\* process.env.MAX_MULT: unset, or the string the deployment gave
EnvValues == {Undefined, JStr(<<"1", "0", "0">>), JStr(<<"0">>), JStr(<<"a", "b", "c">>)}

\* the caps a caller of the engine passes: its own, and what the HTTP layer parses
MaxMults == {DOfInt(10000), DOfInt(100), DOfInt(1)} \cup {MaxMultOf(e) : e \in EnvValues}

WrongHash == <<"w", "r", "o", "n", "g", "-", "h", "a", "s", "h">>

\* the claimed hashes of a server seed: none, the empty string, a string that is
\* no digest, and the digest of the seed as SHA-256 prints it and in capitals
ClaimedHashes(H, serverSeed) ==
  {Undefined, JStr(<<>>), JStr(WrongHash), JStr(H[serverSeed]),
   JStr(toUpperCase(H[serverSeed]))}

\* the expected results a request carries: none, 0, a result and its neighbour
ExpectedResults ==
  {Undefined, JNum(DZero), JNum(DOfRatio(3648, 100)), JNum(DOfRatio(3649, 100))}


(***************************************************************************)
(* The engine and the digest utility, called directly: the arguments are   *)
(* drawn first, the function is applied, and the same call is made again.  *)
(***************************************************************************)
DiceCalls ==
  {[op |-> "verifyDice", serverSeed |-> s, clientSeed |-> c, nonce |-> n] :
     s \in ServerSeeds, c \in ClientSeeds, n \in Nonces}

CrashCalls ==
  {[op |-> "verifyCrash", serverSeed |-> s, clientSeed |-> c, nonce |-> n[1],
    maxMult |-> n[2]] :
     s \in ServerSeeds, c \in ClientSeeds, n \in Nonces \X MaxMults}

GameCalls(H) ==
  UNION {
    {[op |-> "verifyGame", game |-> g[1], serverSeed |-> s, serverSeedHash |-> h,
      clientSeed |-> c, nonce |-> n, maxMult |-> g[2]] :
        h \in ClaimedHashes(H, s), c \in ClientSeeds, n \in Nonces,
        g \in {JStr(GameDice), JStr(GameCrash)} \X {DOfInt(10000), DOfInt(100)}} :
    s \in ServerSeeds}

HashCalls(H) ==
  UNION {
    {[op |-> "verifyServerSeedHash", serverSeed |-> s, serverSeedHash |-> h.v] :
        h \in ClaimedHashes(H, s) \ {Undefined}} :
    s \in ServerSeeds}

\* games the engine does not know
UnknownGames == {JStr(<<"s", "l", "o", "t", "s">>), JStr(<<"D", "I", "C", "E">>)}

UnknownGameCalls ==
  {[op |-> "verifyGame", game |-> g, serverSeed |-> s, serverSeedHash |-> h,
    clientSeed |-> c, nonce |-> n, maxMult |-> DOfInt(10000)] :
     g \in UnknownGames, s \in ServerSeeds, h \in {Undefined, JStr(WrongHash)},
     c \in ClientSeeds, n \in Nonces}

\* requests for such a game, handed to postVerify
UnknownGameRequests ==
  {[op |-> "postVerify",
    body |-> [game |-> g, server_seed |-> JStr(s), server_seed_hash |-> h,
              client_seed |-> JStr(c), nonce |-> JNum(n), expected_result |-> Undefined,
              expect_strict |-> Undefined]] :
     g \in UnknownGames \cup {Undefined}, s \in ServerSeeds,
     h \in {Undefined, JStr(WrongHash)}, c \in ClientSeeds, n \in Nonces}

EngineCalls(H) ==
  DiceCalls \cup CrashCalls \cup GameCalls(H) \cup HashCalls(H)
    \cup UnknownGameCalls \cup UnknownGameRequests

InitEngine ==
  /\ sha \in HashFamily
  /\ env = Undefined
  /\ phase = "pending"
  /\ call \in EngineCalls(sha)
  /\ ret = None
  /\ seen = None
  /\ engine = <<>>
  /\ app = AppInit
  /\ fetches = <<>>

VerifyDice ==
  /\ phase = "pending" /\ call.op = "verifyDice"
  /\ ret' = verifyDice(sha, call.serverSeed, call.clientSeed, call.nonce)
  /\ phase' = "done"
  /\ UNCHANGED <<sha, env, call, seen, engine, app, fetches>>

VerifyCrash ==
  /\ phase = "pending" /\ call.op = "verifyCrash"
  /\ ret' = verifyCrash(sha, call.serverSeed, call.clientSeed, call.nonce, call.maxMult)
  /\ phase' = "done"
  /\ UNCHANGED <<sha, env, call, seen, engine, app, fetches>>

\* verifyGame returns, or throws and leaves the caller without a result
GameReturn(game) ==
  /\ ret' = game
  /\ phase' = IF game.threw THEN "threw" ELSE "done"

VerifyGame ==
  /\ phase = "pending" /\ call.op = "verifyGame"
  /\ GameReturn(verifyGame(sha, call.game, call.serverSeed, call.serverSeedHash,
                           call.clientSeed, call.nonce, call.maxMult))
  /\ UNCHANGED <<sha, env, call, seen, engine, app, fetches>>

VerifyServerSeedHash ==
  /\ phase = "pending" /\ call.op = "verifyServerSeedHash"
  /\ ret' = JBool(verifyServerSeedHash(sha, call.serverSeed, call.serverSeedHash))
  /\ phase' = "done"
  /\ UNCHANGED <<sha, env, call, seen, engine, app, fetches>>

\* postVerify(req, res): the response, and the calls of verifyGame made for it
PostVerify ==
  /\ phase = "pending" /\ call.op = "postVerify"
  /\ ret' = postVerify(sha, env, call.body)
  /\ engine' = postVerifyCalls(env, call.body)
  /\ phase' = "done"
  /\ UNCHANGED <<sha, env, call, seen, app, fetches>>

\* the caller keeps the result and makes the same call once more
CallAgain ==
  /\ phase = "done" /\ seen = None
  /\ seen' = ret
  /\ ret' = None
  /\ phase' = "pending"
  /\ engine' = <<>>
  /\ UNCHANGED <<sha, env, call, app, fetches>>

NextEngine ==
  \/ VerifyDice
  \/ VerifyCrash
  \/ VerifyGame
  \/ VerifyServerSeedHash
  \/ PostVerify
  \/ CallAgain

SpecEngine == InitEngine /\ [][NextEngine]_vars

(***************************************************************************)
(* compareResults, called directly.  A caller writes its numbers as        *)
(* decimals: a literal counts thousandths, and what compareResults gets is *)
(* the double nearest to it (a dice roll or crash point k/100 is that      *)
(* double too).  The call is then made with the two numbers swapped.       *)
(***************************************************************************)
MaxCents == 4

CompareLiterals ==
  {10 * k : k \in 0..MaxCents} \cup {5, 42370, 42375, 42380, 42390, 99990}

LiteralValue(thousandths) == DOfRatio(thousandths, 1000)

\* the third argument may be left out
CompareCalls ==
  {[op |-> "compareResults", computed |-> x[1], expected |-> x[2], strict |-> x[3]] :
     x \in CompareLiterals \X CompareLiterals
             \X {Undefined, JBool(FALSE), JBool(TRUE)}}

\* "strict: boolean = false": the value of the parameter in the call
StrictOf(strict) == IF strict = Undefined THEN FALSE ELSE strict.v

InitCompare ==
  /\ sha = HashFunction(0)
  /\ env = Undefined
  /\ phase = "pending"
  /\ call \in CompareCalls
  /\ ret = None
  /\ seen = None
  /\ engine = <<>>
  /\ app = AppInit
  /\ fetches = <<>>

CompareResults ==
  /\ phase = "pending" /\ call.op = "compareResults"
  /\ ret' = JBool(compareResults(LiteralValue(call.computed), LiteralValue(call.expected),
                                 StrictOf(call.strict)))
  /\ phase' = "done"
  /\ UNCHANGED <<sha, env, call, seen, engine, app, fetches>>

\* the caller keeps the result and asks the other way round
CallSwapped ==
  /\ phase = "done" /\ seen = None
  /\ seen' = ret
  /\ ret' = None
  /\ call' = [call EXCEPT !.computed = call.expected, !.expected = call.computed]
  /\ phase' = "pending"
  /\ UNCHANGED <<sha, env, engine, app, fetches>>

NextCompare ==
  \/ CompareResults
  \/ CallSwapped

SpecCompare == InitCompare /\ [][NextCompare]_vars

(***************************************************************************)
(* The HTTP server: a request arrives, postVerify answers it, the answer   *)
(* is sent.                                                                *)
(***************************************************************************)
Bodies(H) ==
  UNION {
    {[game |-> g[1], server_seed |-> JStr(s), server_seed_hash |-> h,
      client_seed |-> JStr(c), nonce |-> JNum(n), expected_result |-> x,
      expect_strict |-> g[2]] :
        h \in ClaimedHashes(H, s), c \in ClientSeeds, n \in Nonces,
        x \in ExpectedResults,
        g \in {JStr(GameDice), JStr(GameCrash)} \X {Undefined, JBool(TRUE)}} :
    s \in ServerSeeds}

\* a request that is in order, and requests that differ from it in one field or
\* in two: a field left out, of another type, empty, too long, out of range
BaseBody ==
  [game |-> JStr(GameDice), server_seed |-> JStr(<<"a">>), server_seed_hash |-> Undefined,
   client_seed |-> JStr(<<"c">>), nonce |-> JNum(DOfInt(1)), expected_result |-> Undefined,
   expect_strict |-> Undefined]

EdgeSeeds ==
  {Undefined, JStr(<<>>), JNum(DOfInt(5)), JStr(FullSeed), JStr(Append(FullSeed, "a"))}

EdgeBodies ==
  {[BaseBody EXCEPT !.game = v] : v \in UnknownGames \cup {Undefined, JStr(<<>>)}}
  \cup {[BaseBody EXCEPT !.server_seed = v] : v \in EdgeSeeds}
  \cup {[BaseBody EXCEPT !.client_seed = v] : v \in EdgeSeeds}
  \cup {[BaseBody EXCEPT !.nonce = v] :
          v \in {Undefined, JNull, JStr(<<"1">>), JNum(DZero), JNum(DOfInt(-1)),
                 JNum(DOfRatio(3, 2))}}
  \cup {[BaseBody EXCEPT !.expected_result = v] :
          v \in {JNull, JStr(<<"5">>), JNum(DOfInt(-1))}}
  \cup {[BaseBody EXCEPT !.server_seed_hash = v] :
          v \in {JNull, JBool(FALSE), JNum(DZero), JBool(TRUE), JNum(DOfInt(5))}}
  \cup {[BaseBody EXCEPT !.game = JStr(<<>>), !.nonce = JNum(DZero)],
        [BaseBody EXCEPT !.server_seed = Undefined, !.client_seed = Undefined],
        [BaseBody EXCEPT !.client_seed = JStr(Append(FullSeed, "a")),
                         !.expected_result = JNum(DOfInt(-1))],
        [BaseBody EXCEPT !.nonce = JNum(DZero), !.server_seed_hash = JNum(DOfInt(5))]}

Init ==
  /\ sha \in HashFamily
  /\ env \in EnvValues
  /\ phase = "idle"
  /\ call = None
  /\ ret = None
  /\ seen = None
  /\ engine = <<>>
  /\ app = AppInit
  /\ fetches = <<>>

Receive ==
  /\ phase = "idle"
  /\ \E body \in Bodies(sha) \cup EdgeBodies :
       call' = [op |-> "postVerify", body |-> body]
  /\ phase' = "pending"
  /\ UNCHANGED <<sha, env, ret, seen, engine, app, fetches>>

Deliver ==
  /\ phase = "done"
  /\ phase' = "idle"
  /\ call' = None
  /\ ret' = None
  /\ engine' = <<>>
  /\ UNCHANGED <<sha, env, seen, app, fetches>>

Next ==
  \/ Receive
  \/ PostVerify
  \/ Deliver

Spec == Init /\ [][Next]_vars

(***************************************************************************)
(* Calls of the engine and of postVerify one after the other, on seeds and  *)
(* nonces of their own: the caller keeps the first call and its result,    *)
(* makes another call, and then the first call once more.  SHA-256 is here *)
(* a function without collisions.                                          *)
(***************************************************************************)
\* the server seed and the client seed of the test "Dice Test Vector 2"
TestSeeds ==
  <<<<"t", "e", "s", "t", "-", "s", "e", "r", "v", "e", "r", "-", "s", "e",
      "e", "d", "-", "2">>,
    <<"t", "e", "s", "t", "-", "c", "l", "i", "e", "n", "t", "-", "s", "e",
      "e", "d", "-", "2">>>>

\* the server seed and the client seed of a round: plain, with a ':' in either
\* seed, and those of the test
PairSeeds ==
  {<<<<"a">>, <<"c">>>>, <<<<"a", ":", "b">>, <<"c">>>>, <<<<"a">>, <<"b", ":", "c">>>>,
   TestSeeds}

\* SHA-256 of the server seed of the test and of its hash inputs for the nonces
\* 1 and 2
Sha256Known ==
  (TestSeeds[1] :>
     <<"7", "0", "3", "7", "8", "c", "a", "e", "5", "d", "6", "d", "1",
       "4", "2", "c", "e", "b", "c", "8", "a", "6", "6", "1", "c", "e",
       "e", "c", "c", "7", "4", "2", "b", "5", "8", "7", "e", "f", "1",
       "c", "f", "a", "8", "5", "c", "f", "9", "b", "8", "c", "a", "9",
       "7", "8", "0", "e", "0", "5", "3", "4", "4", "0", "9", "3">>)
  @@ (computeHashInput(TestSeeds[1], TestSeeds[2], DOfInt(1)) :>
     <<"0", "5", "3", "0", "e", "3", "2", "5", "4", "e", "1", "f", "f",
       "f", "e", "5", "e", "6", "4", "8", "3", "8", "7", "8", "2", "2",
       "9", "d", "6", "0", "f", "a", "e", "f", "2", "3", "4", "1", "6",
       "b", "9", "7", "7", "6", "d", "8", "f", "6", "b", "a", "0", "7",
       "c", "4", "8", "4", "0", "c", "6", "c", "1", "3", "e", "9">>)
  @@ (computeHashInput(TestSeeds[1], TestSeeds[2], DOfInt(2)) :>
     <<"2", "2", "7", "d", "6", "b", "a", "9", "8", "5", "6", "9", "4",
       "1", "c", "a", "9", "9", "8", "8", "0", "5", "0", "3", "8", "a",
       "7", "8", "6", "6", "3", "f", "7", "6", "e", "9", "5", "6", "c",
       "b", "2", "1", "f", "7", "1", "3", "0", "1", "b", "9", "c", "c",
       "1", "a", "c", "4", "7", "e", "2", "c", "2", "8", "3", "5">>)

\* the hash functions of two calls, on every message the engine hashes on these
\* seeds: SHA-256 where it is known, elsewhere a digest that spells the message
\* out after its first 13 characters, so that no two messages share one.  Two
\* further beginnings have a crash point just below 1.02 and just below 1.25.
DistinctHash(salt) ==
  LET prefixes ==
        <<<<"0", "5", "0", "5", "0", "5", "0", "5", "0", "5", "0", "5", "0">>,
          <<"3", "3", "3", "3", "3", "3", "3", "3", "3", "3", "3", "3", "3">>>>
        \o DigestPrefixes
  IN
  [msg \in {p[1] : p \in PairSeeds}
             \cup {computeHashInput(p[1], p[2], n) : p \in PairSeeds, n \in Nonces} |->
     IF msg \in DOMAIN Sha256Known THEN Sha256Known[msg]
     ELSE prefixes[((SumCodes(msg, 1) + Len(msg) + salt) % Len(prefixes)) + 1]
            \o [i \in 1..51 |->
                  IF (i + 1) \div 2 > Len(msg) THEN "0"
                  ELSE LET ch   == msg[(i + 1) \div 2]
                           code == IF IndexOf(LowerChars, ch) > 0
                                   THEN IndexOf(LowerChars, ch)
                                   ELSE IF IndexOf(DigitChars, ch) > 0
                                   THEN 30 + IndexOf(DigitChars, ch)
                                   ELSE IF ch = ":" THEN 50 ELSE 51
                       IN  DigitChars[(IF i % 2 = 1 THEN code \div 16 ELSE code % 16) + 1]]]

PairCalls ==
  UNION {
    {[op |-> "verifyDice", serverSeed |-> p[1], clientSeed |-> p[2], nonce |-> n],
     [op |-> "verifyCrash", serverSeed |-> p[1], clientSeed |-> p[2], nonce |-> n,
      maxMult |-> DOfInt(10000)],
     [op |-> "verifyGame", game |-> JStr(GameDice), serverSeed |-> p[1],
      serverSeedHash |-> Undefined, clientSeed |-> p[2], nonce |-> n,
      maxMult |-> DOfInt(10000)],
     [op |-> "verifyGame", game |-> JStr(GameCrash), serverSeed |-> p[1],
      serverSeedHash |-> JStr(WrongHash), clientSeed |-> p[2], nonce |-> n,
      maxMult |-> DOfInt(10000)]} :
    p \in PairSeeds, n \in Nonces}
  \cup UNION {
    {[op |-> "postVerify",
      body |-> [BaseBody EXCEPT !.nonce = JNum(n), !.server_seed_hash = JStr(WrongHash),
                                !.expected_result = JNum(DZero)]],
     [op |-> "postVerify",
      body |-> [BaseBody EXCEPT !.game = JStr(GameCrash), !.nonce = JNum(n)]]} :
    n \in Nonces}

InitPair ==
  /\ sha \in {DistinctHash(0), DistinctHash(MaxSalt)}
  /\ env = Undefined
  /\ phase = "pending"
  /\ call \in PairCalls
  /\ ret = None
  /\ seen = None
  /\ engine = <<>>
  /\ app = AppInit
  /\ fetches = <<>>

\* the caller keeps the call and its result and makes another call
CallOther ==
  /\ phase = "done" /\ seen = None
  /\ seen' = [call |-> call, ret |-> ret, other |-> None]
  /\ call' \in PairCalls
  /\ ret' = None
  /\ phase' = "pending"
  /\ UNCHANGED <<sha, env, engine, app, fetches>>

\* the caller keeps that call and its result too and makes the first call again
CallFirstAgain ==
  /\ phase = "done" /\ seen # None /\ seen.other = None
  /\ seen' = [seen EXCEPT !.other = [call |-> call, ret |-> ret]]
  /\ call' = seen.call
  /\ ret' = None
  /\ phase' = "pending"
  /\ UNCHANGED <<sha, env, engine, app, fetches>>

NextPair ==
  \/ VerifyDice
  \/ VerifyCrash
  \/ VerifyGame
  \/ PostVerify
  \/ CallOther
  \/ CallFirstAgain

SpecPair == InitPair /\ [][NextPair]_vars

(***************************************************************************)
(* The client and the server together: the user submits the form, the      *)
(* request travels, postVerify answers it, and the reply or a failure      *)
(* reaches handleVerify.  seen is the form as it was last submitted.       *)
(***************************************************************************)
MaxFetches == 2

\* what the user has filled in: either game, a claimed hash or none, and the
\* expected result unticked, ticked and left empty, 0, 0.00, 36.49 or -1
Forms ==
  {[game |-> g, serverSeed |-> <<"a">>, clientSeed |-> <<"c">>, nonce |-> n,
    useServerSeedHash |-> h[1], serverSeedHash |-> h[2],
    useExpectedResult |-> x[1], expectedResult |-> x[2], expectStrict |-> x[3]] :
     g \in {GameDice, GameCrash}, n \in Nonces,
     h \in {<<FALSE, <<>>>>, <<TRUE, WrongHash>>},
     x \in {<<FALSE, <<"0">>, FALSE>>, <<TRUE, <<>>, FALSE>>,
            <<TRUE, <<"0">>, FALSE>>, <<TRUE, <<"0", ".", "0", "0">>, TRUE>>,
            <<TRUE, <<"3", "6", ".", "4", "9">>, FALSE>>,
            <<TRUE, <<"-", "1">>, FALSE>>}}

InitClient ==
  /\ sha \in {HashFunction(0), HashFunction(MaxSalt)}
  /\ env \in EnvValues
  /\ phase = "idle"
  /\ call = None
  /\ ret = None
  /\ seen = None
  /\ engine = <<>>
  /\ app = AppInit
  /\ fetches = <<>>

\* the sequence without its i-th element
Without(seq, i) == SubSeq(seq, 1, i - 1) \o SubSeq(seq, i + 1, Len(seq))

\* handleSubmit and handleVerify up to the await of fetch
Submit ==
  /\ ~disabled(app.loading)
  /\ Len(fetches) < MaxFetches
  /\ \E form \in Forms :
       /\ seen' = form
       /\ fetches' = Append(fetches, fetchBody(handleSubmit(form)))
  /\ app' = [result |-> JNull, loading |-> TRUE, error |-> JNull]
  /\ UNCHANGED <<sha, env, phase, call, ret, engine>>

\* a request reaches the server and postVerify answers it: the response, and
\* the calls of verifyGame made for it
Serve ==
  /\ phase = "idle"
  /\ \E i \in 1..Len(fetches) :
       /\ call' = [op |-> "postVerify", body |-> fetches[i]]
       /\ ret' = postVerify(sha, env, fetches[i])
       /\ engine' = postVerifyCalls(env, fetches[i])
       /\ fetches' = Without(fetches, i)
  /\ phase' = "done"
  /\ UNCHANGED <<sha, env, seen, app>>

\* handleVerify from "await response.json()" on, for the response of postVerify
Respond ==
  /\ phase = "done" /\ call.op = "postVerify"
  /\ app' = IF ret.status = 200
            THEN [app EXCEPT !.loading = FALSE,
                             !.result = [ret EXCEPT !.computed_result = JSONValue(JNum(@))]]
            ELSE [app EXCEPT !.loading = FALSE,
                             !.error = [t |-> "string",
                                        v |-> IF ret.error # "" THEN ret.error
                                              ELSE "Verification failed"]]
  /\ phase' = "idle"
  /\ call' = None
  /\ ret' = None
  /\ engine' = <<>>
  /\ UNCHANGED <<sha, env, seen, fetches>>

\* handleVerify when fetch rejects, or when the rate limiter answers 429
Fail ==
  /\ \E i \in 1..Len(fetches) : fetches' = Without(fetches, i)
  /\ \E message \in {"Failed to fetch", "Too many requests, please try again later."} :
       app' = [app EXCEPT !.loading = FALSE, !.error = [t |-> "string", v |-> message]]
  /\ UNCHANGED <<sha, env, phase, call, ret, seen, engine>>

NextClient ==
  \/ Submit
  \/ Serve
  \/ Respond
  \/ Fail

\* every request in flight fails or is answered, and every answer is read
SpecClient ==
  /\ InitClient
  /\ [][NextClient]_vars
  /\ WF_vars(Fail \/ Serve)
  /\ WF_vars(Respond)

(***************************************************************************)
(* Properties.                                                             *)
(***************************************************************************)
\* the call of operation op has returned
Returned(op) == phase = "done" /\ call.op = op

\* 100 * d rounded to the nearest whole number, in exact arithmetic, for a
\* finite double d >= 0
HundredthsAt(n, p) ==
  LET qr == NatDivMod(n, p)
  IN  NatBump(qr[1], NatLeq(p, NatAdd(qr[2], qr[2])))

HundredthsOf(d) ==
  IF d.e >= 0 THEN NatShl(NatMulSmall(d.m, 100), d.e)
  ELSE HundredthsAt(NatMulSmall(d.m, 100), NatPow2(-d.e))

\* d is the double of k/100 for a whole number k with 0 <= k <= top
IsHundredths(d, top) ==
  /\ d.k = "num" /\ d.s = 1
  /\ NatLeq(HundredthsOf(d), NatOfInt(top))
  /\ RoundRat(1, HundredthsOf(d), <<100>>, 0) = d

\* C1 (as the specification states it): every crash point verifyCrash
\* returns is at least 1.00 and at most the max_multiplier it was given,
\* whatever cap MAX_MULT parses to.
CrashWithinCap ==
  Returned("verifyCrash") =>
    /\ DLeq(D1, ret.computedResult)
    /\ DLeq(ret.computedResult, call.maxMult)

\* C2: every dice roll verifyDice returns is a whole number of hundredths
\* from 0.00 to 99.99.
DiceWithinRange ==
  Returned("verifyDice") => IsHundredths(ret.computedResult, 9999)

DiceAtTop ==
  Returned("verifyDice") /\ ret.computedResult = DOfRatio(9999, 100)

\* what verifyDice, verifyCrash or verifyGame computed
OutcomeOf(r) == IF call.op = "verifyGame" THEN r.result ELSE r

GameOf(body) ==
  verifyGame(sha, body.game, body.server_seed.v, body.server_seed_hash,
             body.client_seed.v, body.nonce.v, MaxMultOf(env))

\* compareResults of the computed result of a response and the expected result
\* of its request
MatchesExpected(body, response) ==
  compareResults(response.computed_result, body.expected_result.v,
                 Truthy(OrElse(body.expect_strict, JBool(FALSE))))

Answered == Returned("postVerify") /\ ret.status = 200

\* C4: the verdict of postVerify on a valid request is FAIL exactly when
\* verifyGame reported a hash mismatch, or an expected result was supplied
\* (0 included) and compareResults of the computed and the expected result is
\* false; otherwise it is PASS.
VerdictRule ==
  Answered =>
    /\ ret.verdict \in {"PASS", "FAIL"}
    /\ (ret.verdict = "FAIL") <=>
         (\/ GameOf(call.body).hashMismatch
          \/ (/\ call.body.expected_result # Undefined
              /\ ~MatchesExpected(call.body, ret)))

MismatchOutweighsMatch ==
  /\ Answered
  /\ GameOf(call.body).hashMismatch
  /\ call.body.expected_result # Undefined
  /\ MatchesExpected(call.body, ret)
  /\ ret.verdict = "FAIL"

\* C5 (as the specification states it): whenever verifyGame is given a
\* claimed hash, any string, hashVerified is what verifyServerSeedHash
\* returns for the seed and that string, and hashMismatch is its negation.
AnyClaimedHashChecked ==
  (Returned("verifyGame") /\ typeof(call.serverSeedHash) = "string") =>
    /\ ret.hashVerified =
         verifyServerSeedHash(sha, call.serverSeed, call.serverSeedHash.v)
    /\ ret.hashMismatch = ~ret.hashVerified

\* C5 (amended): whenever verifyGame is given a claimed hash that is a
\* non-empty string, hashVerified is what verifyServerSeedHash returns for
\* the seed and that string, and hashMismatch is its negation.
ClaimedHashChecked ==
  (/\ Returned("verifyGame") /\ typeof(call.serverSeedHash) = "string"
   /\ call.serverSeedHash.v # <<>>) =>
    /\ ret.hashVerified =
         verifyServerSeedHash(sha, call.serverSeed, call.serverSeedHash.v)
    /\ ret.hashMismatch = ~ret.hashVerified

WrongHashFlagged ==
  /\ Returned("verifyGame") /\ call.serverSeedHash = JStr(WrongHash)
  /\ ~ret.hashVerified /\ ret.hashMismatch

\* C6: when verifyGame is given no claimed hash, hashVerified and
\* hashMismatch are both false; and no call returns both of them true.
NoClaimNoFlags ==
  Returned("verifyGame") =>
    /\ call.serverSeedHash = Undefined => (~ret.hashVerified /\ ~ret.hashMismatch)
    /\ ~(ret.hashVerified /\ ret.hashMismatch)

NoClaimMade ==
  /\ Returned("verifyGame") /\ call.serverSeedHash = Undefined
  /\ ~ret.hashVerified /\ ~ret.hashMismatch

\* two characters are the same letter, whichever the case of each
SameLetter(c, d) ==
  \/ c = d
  \/ \E i \in 1..Len(LowerChars) :
       {c, d} = {LowerChars[i], UpperChars[i]}

EqualIgnoringCase(a, b) ==
  Len(a) = Len(b) /\ \A i \in 1..Len(a) : SameLetter(a[i], b[i])

\* C7: verifyServerSeedHash(seed, claimed) is true exactly when the SHA-256
\* digest of the seed equals the claimed string up to the case of letters:
\* the digest itself and the digest in capitals are accepted, every other
\* string is rejected.
HashCheckIgnoresCase ==
  Returned("verifyServerSeedHash") =>
    /\ ret.v = EqualIgnoringCase(sha256(sha, call.serverSeed), call.serverSeedHash)
    /\ call.serverSeedHash \in {sha256(sha, call.serverSeed),
                                toUpperCase(sha256(sha, call.serverSeed))} => ret.v
    /\ call.serverSeedHash \in {<<>>, WrongHash} => ~ret.v

CapitalDigestAccepted ==
  /\ Returned("verifyServerSeedHash")
  /\ call.serverSeedHash = toUpperCase(sha256(sha, call.serverSeed))
  /\ call.serverSeedHash # sha256(sha, call.serverSeed)
  /\ ret.v

\* the call of compareResults in tolerant mode has returned
TolerantReturned == Returned("compareResults") /\ ~StrictOf(call.strict)

\* |a - b| as a multiple of 2^e0, in exact arithmetic, for finite doubles a, b
\* and e0 at most their exponents
ExactDistanceAt(x, y, sameSign) ==
  IF ~sameSign THEN NatAdd(x, y)
  ELSE IF NatLess(x, y) THEN NatSub(y, x) ELSE NatSub(x, y)

ExactDistance(a, b, e0) ==
  ExactDistanceAt(NatShl(a.m, a.e - e0), NatShl(b.m, b.e - e0),
                  a.s = b.s \/ a.m = <<>> \/ b.m = <<>>)

LeastExponent(a, b) ==
  IF a.e < b.e THEN (IF a.e < 0 THEN a.e ELSE 0) ELSE (IF b.e < 0 THEN b.e ELSE 0)

\* |a - b| < 1/100 for the numbers the doubles a and b are
WithinHundredth(a, b) ==
  NatLess(NatMulSmall(ExactDistance(a, b, LeastExponent(a, b)), 100),
          NatPow2(-LeastExponent(a, b)))

HundredthApartAccepted ==
  (TolerantReturned /\ seen = None /\ call.computed = 42370) =>
    /\ call.expected = 42380 => ret.v
    /\ call.expected = 42390 => ~ret.v

\* C10: compareResults(a, b, mode) equals compareResults(b, a, mode), in
\* either mode.
SwappedAgrees ==
  (Returned("compareResults") /\ seen # None) => ret = seen

SwappedAccepted ==
  /\ Returned("compareResults") /\ seen # None
  /\ call.computed # call.expected
  /\ ret.v /\ seen.v

\* C11: in strict mode, for two values on the 2-decimal grid, compareResults
\* returns true exactly when the two values are equal.
StrictOnGrid ==
  (/\ Returned("compareResults") /\ StrictOf(call.strict)
   /\ call.computed % 10 = 0 /\ call.expected % 10 = 0) =>
    ret.v = (call.computed = call.expected)

StrictEqualAccepted ==
  /\ Returned("compareResults") /\ call.strict = JBool(TRUE)
  /\ call.computed = 42370 /\ call.expected = 42370
  /\ ret.v

\* the game of a call or request is one the engine knows
KnownGame(game) == game \in {JStr(GameDice), JStr(GameCrash)}

\* C13: verifyGame throws for every game other than 'dice' and 'crash', and
\* postVerify answers a request for such a game with HTTP 400 and ok = false
\* without calling verifyGame, never with 500.
UnknownGameRejected ==
  /\ (/\ phase \in {"done", "threw"} /\ call.op = "verifyGame"
      /\ ~KnownGame(call.game)) => phase = "threw"
  /\ (Returned("postVerify") /\ ~KnownGame(call.body.game)) =>
       (ret.status = 400 /\ ~ret.ok /\ engine = <<>>)

UnknownGameRefused ==
  /\ Returned("postVerify")
  /\ call.body.game = JStr(<<"D", "I", "C", "E">>)
  /\ ret.status = 400 /\ engine = <<>>

\* C12: every request that passes validation is answered with HTTP 200 and
\* ok = true, a computed_result and a verdict; a hash mismatch or a result
\* that does not match the expected one gives the verdict FAIL, never an
\* error response.
MismatchIsNoError ==
  (Returned("postVerify") /\ validateRequest(call.body).valid) =>
    /\ ret.status = 200 /\ ret.ok
    /\ {"computed_result", "verdict"} \subseteq DOMAIN ret
    /\ (\/ GameOf(call.body).hashMismatch
        \/ (/\ call.body.expected_result # Undefined
            /\ ~MatchesExpected(call.body, ret))) => ret.verdict = "FAIL"

BothMismatchesAnswered ==
  /\ Answered /\ ret.ok /\ ret.verdict = "FAIL"
  /\ GameOf(call.body).hashMismatch
  /\ call.body.expected_result # Undefined
  /\ ~MatchesExpected(call.body, ret)

\* the Outcome a call of the engine returned: verifyGame wraps it
PairOutcome(c, r) == IF c.op = "verifyGame" THEN r.result ELSE r

\* H gives no two messages the same digest
CollisionFree(H) == \A m1, m2 \in DOMAIN H : m1 # m2 => H[m1] # H[m2]

\* both calls of a pair have returned, and both are calls of the engine
BothReturned ==
  /\ phase = "done" /\ seen # None /\ seen.other = None
  /\ call.op # "postVerify" /\ seen.call.op # "postVerify"

\* the Hash Input of a call
HashInputOf(c) == computeHashInput(c.serverSeed, c.clientSeed, c.nonce)

\* the two calls are verifyDice on the seeds of the test, nonce 1 and then 2
TestVectorTwo ==
  /\ call.op = "verifyDice" /\ seen.call.op = "verifyDice"
  /\ call.serverSeed = TestSeeds[1] /\ call.clientSeed = TestSeeds[2]
  /\ seen.call.serverSeed = TestSeeds[1] /\ seen.call.clientSeed = TestSeeds[2]
  /\ seen.call.nonce = DOfInt(1) /\ call.nonce = DOfInt(2)

\* C14: two calls with the same server seed and client seed and different
\* nonces (each >= 1) have different Hash Inputs and, the hash being free of
\* collisions, different digests in computationHex; on the seeds of the test
\* "Different nonce produces different result", nonces 1 and 2, the dice
\* results differ as well
NonceSensitive ==
  (/\ BothReturned
   /\ call.serverSeed = seen.call.serverSeed /\ call.clientSeed = seen.call.clientSeed
   /\ call.nonce # seen.call.nonce
   /\ CollisionFree(sha))
  => /\ HashInputOf(call) # HashInputOf(seen.call)
     /\ PairOutcome(call, ret).computationHex
          # PairOutcome(seen.call, seen.ret).computationHex
     /\ TestVectorTwo => ret.computedResult # seen.ret.computedResult

\* the test's two calls have returned 99.57 and 49.05
TestVectorTwoDiffers ==
  /\ BothReturned /\ TestVectorTwo /\ CollisionFree(sha)
  /\ seen.ret.computedResult = DOfRatio(9957, 100)
  /\ ret.computedResult = DOfRatio(4905, 100)

\* the first call of a pair has been made again after the other call
MadeAgain == phase = "done" /\ seen # None /\ seen.other # None

WellFormedSeed(a) == a.t = "string" /\ a.v # <<>> /\ Len(a.v) <= MaxSeedLength

\* a request whose fields are all in order: game 'dice' or 'crash', both seeds
\* well formed, nonce an integer >= 1, expected_result absent or a
\* non-negative number, server_seed_hash absent or a string
WellFormed(body) ==
  /\ body.game \in {JStr(GameDice), JStr(GameCrash)}
  /\ WellFormedSeed(body.server_seed) /\ WellFormedSeed(body.client_seed)
  /\ body.nonce.t = "number" /\ NumberIsInteger(body.nonce.v) /\ DLeq(D1, body.nonce.v)
  /\ \/ body.expected_result = Undefined
     \/ body.expected_result.t = "number" /\ DLeq(DZero, body.expected_result.v)
  /\ \/ body.server_seed_hash = Undefined
     \/ body.server_seed_hash.t = "string"

\* C16 (as the specification states it): postVerify calls verifyGame for the
\* well-formed requests only; every other request is answered 400 with
\* ok = false and an error message, without a call of verifyGame and without
\* an outcome
EngineOnlyForWellFormed ==
  Returned("postVerify") =>
    IF WellFormed(call.body)
    THEN engine # <<>> /\ ret.status = 200
    ELSE /\ engine = <<>>
         /\ ret.status = 400 /\ ret.ok = FALSE
         /\ ret.error = validateRequest(call.body).error
         /\ "computed_result" \notin DOMAIN ret

\* the preimage of a round as the specification writes it: server seed, ':',
\* client seed, ':', and the nonce in decimal (a nonce of the model has one
\* digit)
Preimage(c) ==
  c.serverSeed \o <<":">> \o c.clientSeed \o <<":">>
    \o <<DigitChars[(CHOOSE n \in 1..9 : DOfInt(n) = c.nonce) + 1]>>

RoundAccepted(c) ==
  validateRequest([BaseBody EXCEPT !.server_seed = JStr(c.serverSeed),
                                   !.client_seed = JStr(c.clientSeed),
                                   !.nonce = JNum(c.nonce)]).valid

\* C20 (as the specification states it): two calls whose triples (server
\* seed, client seed, nonce) differ, both accepted by validateRequest, never
\* have the same Hash Input, also when a seed contains ':'
HashInputUnique ==
  (/\ BothReturned
   /\ RoundAccepted(call) /\ RoundAccepted(seen.call)
   /\ <<call.serverSeed, call.clientSeed, call.nonce>>
        # <<seen.call.serverSeed, seen.call.clientSeed, seen.call.nonce>>)
  => HashInputOf(call) # HashInputOf(seen.call)

\* the r of verifyCrash for a digest: min(x / 2^52, 1 - 1e-12), x its first 13
\* hex characters
CrashR(hex) ==
  MathMin(DDiv(parseInt(slice(hex, 0, 13), 16), TWO_TO_52), DSub(D1, D1eMinus12))

\* floor(100 / (1 - r)) in exact arithmetic, for a double 0 <= r < 1
ExactFloor(r) ==
  IF r.m = <<>> THEN NatOfInt(100)
  ELSE NatDivMod(NatMul(NatOfInt(100), NatPow2(-r.e)), NatSub(NatPow2(-r.e), r.m))[1]

\* C18 (as the specification states it): verifyCrash returns
\* min(floor(100 / (1 - r)) / 100, max_multiplier): the floor is never
\* exceeded, the cap comes after it and the final rounding changes nothing;
\* and of two calls with the same cap the one with the larger x does not
\* return less
CrashIsFloorThenCap ==
  (phase = "done" /\ call.op = "verifyCrash") =>
    /\ ret.computedResult
         = MathMin(RoundRat(1, ExactFloor(CrashR(ret.computationHex)), <<100>>, 0),
                   call.maxMult)
    /\ (BothReturned /\ seen.call.op = "verifyCrash"
        /\ DLeq(CrashR(seen.ret.computationHex), CrashR(ret.computationHex)))
       => DLeq(seen.ret.computedResult, ret.computedResult)

\* the 52 bits of a digest as verifyCrash reads them, and all of them set
CrashX(hex) == parseInt(slice(hex, 0, 13), 16)
AllOnes == DOfNat(NatSub(NatPow2(52), <<1>>))

InFlight == Len(fetches) + (IF call = None THEN 0 ELSE 1)

\* what the user typed as expected result is a numeral that is not negative
EnteredNumber(form) ==
  /\ form.useExpectedResult
  /\ parseFloat(form.expectedResult).k = "num"
  /\ DLeq(DZero, parseFloat(form.expectedResult))

\* C21 (as the specification states it): when the box "Compare with expected
\* result" is ticked and a number is entered (0 and 0.00 included), the
\* request that is sent carries that number as expected_result, and a result
\* that differs from it by 0.01 or more is displayed with the verdict FAIL
ExpectedResultSent ==
  (seen # None /\ EnteredNumber(seen)) =>
    /\ fetches # <<>> =>
         fetches[Len(fetches)].expected_result = JNum(parseFloat(seen.expectedResult))
    /\ (/\ app.result # JNull
        /\ app.result.computed_result.t = "number"
        /\ ~WithinHundredth(app.result.computed_result.v, parseFloat(seen.expectedResult)))
       => app.result.verdict = "FAIL"

\* what App displays for the response to the submission of the form
Displayed(response) ==
  [response EXCEPT !.computed_result = JSONValue(JNum(@))]

\* exactly one of result and error is set
OneOfResultOrError == (app.result # JNull) # (app.error # JNull)

\* the submission has ended: loading is false and one of result, error is set
Settled == ~app.loading /\ OneOfResultOrError

\* result and error are never both set; at most one request is in flight, and
\* loading tells whether one is; once the submission has ended exactly one of
\* result and error is set; a displayed result is the response to the form as
\* it was last submitted
AppSafe ==
  /\ ~(app.result # JNull /\ app.error # JNull)
  /\ InFlight <= 1
  /\ app.loading <=> InFlight = 1
  /\ (seen # None /\ ~app.loading) => OneOfResultOrError
  /\ app.result # JNull =>
       /\ postVerify(sha, env, fetchBody(handleSubmit(seen))).status = 200
       /\ app.result = Displayed(postVerify(sha, env, fetchBody(handleSubmit(seen))))

\* a step that sends a request sets loading and clears result and error
SubmitClears ==
  Len(fetches') > Len(fetches) =>
    app' = [result |-> JNull, loading |-> TRUE, error |-> JNull]

\* C22: in App, result and error are never both set; starting a submission
\* sets loading and clears the previous result and error; every submission
\* ends with loading false and exactly one of result, error set; at most one
\* request is in flight, so a displayed result belongs to the most recent
\* submission
AppLifecycle ==
  /\ []AppSafe
  /\ [][SubmitClears]_vars
  /\ (app.loading ~> Settled)

\* the error of an HTTP 400 response is displayed, and no result
HttpErrorShown ==
  /\ ~app.loading
  /\ app.result = JNull
  /\ app.error = [t |-> "string", v |-> "expected_result must be a non-negative number"]

\* the value ExplainTooltip recomputes for the result on display
Recomputed == JNum(ExplainTooltip(app.result.game, app.result.details.computation_hex))

\* C23 (as the specification states it): for every success response and
\* every MAX_MULT of the server, the value ExplainTooltip recomputes from
\* computation_hex equals the computed_result the server returned
TooltipReproduces ==
  app.result # JNull => Recomputed = app.result.computed_result

====
